---- MODULE Spec2Model ----
(***************************************************************************)
(* A model of s3load's upload subcommand: parse_size, RandomBytesIO,       *)
(* handle_upload (src/src/s3load/upload.py) and the CLI entry point main   *)
(* (src/src/s3load/__main__.py).                                           *)
(*                                                                         *)
(* Text is modelled as a sequence of one-character strings, so that        *)
(* strip(), lower(), endswith() and int() are computed character by        *)
(* character, as Python computes them.                                     *)
(***************************************************************************)
EXTENDS Integers, Sequences, FiniteSets, TLC

VARIABLES
    size_text,      \* parse_size: the argument of the call under study
    parse_called,   \* parse_size: whether the call has been made
    parse_result    \* parse_size: what the call returned or raised

parseVars == <<size_text, parse_called, parse_result>>

VARIABLES
    ctor_args,      \* RandomBytesIO: the constructor's total_bytes and chunk_size
    stream_state,   \* RandomBytesIO: "new", "ready" or "ValueError"
    _remaining,     \* RandomBytesIO._remaining
    _chunk_size,    \* RandomBytesIO._chunk_size
    n_reads,        \* reader: readinto calls made so far
    last_read,      \* reader: buffer length and return value of the last call
    delivered,      \* reader: bytes returned by all calls so far
    loop             \* reader: the read-until-0 loop, its calls and its bytes

streamVars == <<ctor_args, stream_state, _remaining, _chunk_size, n_reads,
                last_read, delivered, loop>>

VARIABLES
    entry,          \* "main" (the CLI entry point) or "handle_upload" (called directly)
    argv,           \* the command line: the options given and their values
    args,           \* the argparse namespace handed to handle_upload
    pc,             \* the statement the run is at
    result,         \* how handle_upload ended: returned a code, or raised
    exit_status,    \* main: the SystemExit code, or the uncaught exception
    stdout,         \* the lines printed
    log,            \* the records given to the logger
    client,         \* the boto3 client, once constructed
    object_size_bytes,
    total_bytes,
    per_object_results,
    clock,          \* time.perf_counter()
    overall_start,
    start,
    key,
    n_uuid,         \* uuid4() calls made so far
    uploads,        \* the upload_fileobj calls made, in order
    streams,        \* the content streams created, in order
    pending         \* what the try statement does once its finally clause ran

runVars == <<entry, argv, args, pc, result, exit_status, stdout, log, client,
             object_size_bytes, total_bytes, per_object_results, clock,
             overall_start, start, key, n_uuid, uploads, streams, pending>>

vars == <<parseVars, streamVars, runVars>>

----------------------------------------------------------------------------
(* Bounds of the model *)

\* longest size expression enumerated for parse_size
MaxLen == 3

\* largest total_bytes, chunk_size and buffer length given to RandomBytesIO
MaxTotal == 4
MaxChunk == 3
MaxBuf == 3

\* largest --object-count of a run, and the longest one clock advance
MaxCount == 3
MaxTick == 1

----------------------------------------------------------------------------
(* Text *)

\* the characters size expressions are built from in this model: decimal
\* digits, the suffix letters in both cases, another letter, the signs, the
\* digit separator and a blank
Alphabet == {"0", "1", "5", "k", "K", "m", "g", "x", "-", "+", "_", " "}

Digits == {"0", "1", "2", "3", "4", "5", "6", "7", "8", "9"}

\* what str.strip() and int() treat as white space
Whitespace == {" ", "\t", "\n", "\r"}

\* all texts of at most n characters
TextsUpTo(n) == UNION {[1..k -> Alphabet] : k \in 0..n}

DigitVal(c) ==
    CASE c = "0" -> 0 [] c = "1" -> 1 [] c = "2" -> 2 [] c = "3" -> 3
      [] c = "4" -> 4 [] c = "5" -> 5 [] c = "6" -> 6 [] c = "7" -> 7
      [] c = "8" -> 8 [] c = "9" -> 9

\* str.lower() on one character
LowerChar(c) ==
    CASE c = "K" -> "k" [] c = "M" -> "m" [] c = "G" -> "g" [] c = "X" -> "x"
      [] OTHER -> c

\* a parse_size that forgets to fold the case
lower_omitted(s) == s

\* str.lower()
lower(s) == [i \in 1..Len(s) |-> LowerChar(s[i])]

RECURSIVE lstrip(_)
lstrip(s) ==
    IF s = <<>> THEN s
    ELSE IF Head(s) \in Whitespace THEN lstrip(Tail(s)) ELSE s

RECURSIVE rstrip(_)
rstrip(s) ==
    IF s = <<>> THEN s
    ELSE IF s[Len(s)] \in Whitespace THEN rstrip(SubSeq(s, 1, Len(s) - 1)) ELSE s

\* str.strip()
strip(s) == rstrip(lstrip(s))

\* str.endswith(c) for a one-character suffix
endswith(s, c) == Len(s) > 0 /\ s[Len(s)] = c

\* text[:-1]
DropLast(s) == SubSeq(s, 1, Len(s) - 1)

----------------------------------------------------------------------------
(* int(text): Python's conversion of a string to an integer, base 10.      *)
(* White space around the literal is dropped, one sign is allowed, and the *)
(* digits may be grouped by single underscores.                            *)

\* the digits of an integer literal: digits, single underscores between them
IsDigitGroup(s) ==
    /\ Len(s) > 0
    /\ \A i \in 1..Len(s) : s[i] \in Digits \/ s[i] = "_"
    /\ s[1] \in Digits
    /\ s[Len(s)] \in Digits
    /\ \A i \in 1..(Len(s) - 1) : ~(s[i] = "_" /\ s[i + 1] = "_")

RECURSIVE DigitGroupValue(_)
DigitGroupValue(s) ==
    IF s = <<>> THEN 0
    ELSE IF s[Len(s)] = "_" THEN DigitGroupValue(DropLast(s))
    ELSE 10 * DigitGroupValue(DropLast(s)) + DigitVal(s[Len(s)])

\* int(s): [raised |-> TRUE] stands for ValueError
PyInt(s) ==
    LET t == strip(s)
        signed == Len(t) > 0 /\ t[1] \in {"+", "-"}
        body == IF signed THEN Tail(t) ELSE t
    IN  IF ~IsDigitGroup(body) THEN [raised |-> TRUE, value |-> 0]
        ELSE [raised |-> FALSE,
              value |-> IF signed /\ t[1] = "-"
                        THEN 0 - DigitGroupValue(body)
                        ELSE DigitGroupValue(body)]

----------------------------------------------------------------------------
(* Python integers are unbounded. A non-negative integer that may exceed   *)
(* 32 bits (2g is 2^31) is kept as its base-1024 limbs, least significant  *)
(* first, without leading zero limbs (zero is the empty sequence), and the *)
(* arithmetic is exact.                                                    *)

KiB == 1024

RECURSIVE ToBig(_)
ToBig(n) == IF n = 0 THEN <<>> ELSE <<n % KiB>> \o ToBig(n \div KiB)

RECURSIVE BigNorm(_)
BigNorm(a) ==
    IF a = <<>> THEN a
    ELSE IF a[Len(a)] = 0 THEN BigNorm(SubSeq(a, 1, Len(a) - 1)) ELSE a

RECURSIVE BigAddCarry(_, _, _)
BigAddCarry(a, b, c) ==
    IF a = <<>> /\ b = <<>> THEN (IF c = 0 THEN <<>> ELSE <<c>>)
    ELSE LET x == IF a = <<>> THEN 0 ELSE Head(a)
             y == IF b = <<>> THEN 0 ELSE Head(b)
             ta == IF a = <<>> THEN a ELSE Tail(a)
             tb == IF b = <<>> THEN b ELSE Tail(b)
             t == x + y + c
         IN  <<t % KiB>> \o BigAddCarry(ta, tb, t \div KiB)

\* a + b
BigAdd(a, b) == BigNorm(BigAddCarry(a, b, 0))

RECURSIVE BigMulLimb(_, _, _)
BigMulLimb(a, d, c) ==
    IF a = <<>> THEN ToBig(c)
    ELSE LET t == Head(a) * d + c
         IN  <<t % KiB>> \o BigMulLimb(Tail(a), d, t \div KiB)

\* a * b
RECURSIVE BigMul(_, _)
BigMul(a, b) ==
    IF b = <<>> THEN <<>>
    ELSE BigNorm(BigAdd(BigMulLimb(a, Head(b), 0), <<0>> \o BigMul(a, Tail(b))))

----------------------------------------------------------------------------
(* parse_size *)

\* the messages of the ValueErrors parse_size raises; args holds the value
\* interpolated into the message, if any
MsgEmpty == [fmt |-> "Object size must be a positive value", args |-> <<>>]
\* a message that does not repeat the value
MsgInvalid_fixed(size_text_) == [fmt |-> "Invalid size value: {size_text}", args |-> <<>>]
MsgInvalid(size_text_) == [fmt |-> "Invalid size value: {size_text}", args |-> <<size_text_>>]
MsgNegative == [fmt |-> "Size must be non-negative", args |-> <<>>]
NoMsg == [fmt |-> "", args |-> <<>>]

Raise(msg) == [raised |-> TRUE, value |-> <<>>, msg |-> msg]
Return(v) == [raised |-> FALSE, value |-> v, msg |-> NoMsg]

RECURSIVE rstrip_char(_, _)
rstrip_char(s, c) ==
    IF endswith(s, c) THEN rstrip_char(DropLast(s), c) ELSE s

\* a parse_size that removes the suffix with text.rstrip("k") instead of
\* text[:-1], and so removes every trailing suffix letter
SplitSuffix_rstrip(text) ==
    IF endswith(text, "k") THEN [multiplier |-> KiB, text |-> rstrip_char(text, "k")]
    ELSE IF endswith(text, "m") THEN [multiplier |-> KiB * KiB, text |-> rstrip_char(text, "m")]
    ELSE IF endswith(text, "g") THEN [multiplier |-> KiB * KiB * KiB, text |-> rstrip_char(text, "g")]
    ELSE [multiplier |-> 1, text |-> text]

\* the multiplier and the numeric text left once the suffix is looked at
SplitSuffix(text) ==
    IF endswith(text, "k") THEN [multiplier |-> KiB, text |-> DropLast(text)]
    ELSE IF endswith(text, "m") THEN [multiplier |-> KiB * KiB, text |-> DropLast(text)]
    ELSE IF endswith(text, "g") THEN [multiplier |-> KiB * KiB * KiB, text |-> DropLast(text)]
    ELSE [multiplier |-> 1, text |-> text]

\* whether parse_size rejects a parsed value
ValueRejected(value) == value < 0

parse_size(size_text_) ==
    LET text == lower(strip(size_text_))
    IN  IF text = <<>> THEN Raise(MsgEmpty)
        ELSE LET sp == SplitSuffix(text)
                 n == PyInt(sp.text)
             IN  IF n.raised THEN Raise(MsgInvalid(size_text_))
                 ELSE IF ValueRejected(n.value) THEN Raise(MsgNegative)
                 ELSE Return(BigMul(ToBig(n.value), ToBig(sp.multiplier)))

NotParsed == [raised |-> FALSE, value |-> <<>>, msg |-> NoMsg]

----------------------------------------------------------------------------
(* SpecParse: parse_size applied to every text of at most MaxLen characters *)

\* the parts of the state a specification does not use stay as they are here
IdleParse ==
    /\ size_text = <<>>
    /\ parse_called = FALSE
    /\ parse_result = NotParsed

IdleStream ==
    /\ ctor_args = [total_bytes |-> 0, chunk_size |-> 0]
    /\ stream_state = "idle"
    /\ _remaining = 0
    /\ _chunk_size = 0
    /\ n_reads = 0
    /\ last_read = [len |-> 0, ret |-> 0]
    /\ delivered = 0
    /\ loop = [stopped |-> FALSE, calls |-> 0, bytes |-> 0, stop_len |-> 0]

NoArgs == [object_count |-> 0, object_size |-> <<>>]
NoArgv == [flags |-> {}, object_count |-> 0, object_size |-> <<>>, location |-> ""]
Running == [kind |-> "running", code |-> 0, exc |-> ""]
NoClient == [constructed |-> FALSE, region_name |-> ""]
NoKey == <<"", 0>>

\* the local state of handle_upload before it is called
RunReset ==
    /\ result = Running
    /\ exit_status = Running
    /\ stdout = <<>>
    /\ log = <<>>
    /\ client = NoClient
    /\ object_size_bytes = <<>>
    /\ total_bytes = <<>>
    /\ per_object_results = <<>>
    /\ clock = 0
    /\ overall_start = 0
    /\ start = 0
    /\ key = NoKey
    /\ n_uuid = 0
    /\ uploads = <<>>
    /\ streams = <<>>
    /\ pending = ""

IdleRun ==
    /\ entry = "idle"
    /\ argv = NoArgv
    /\ args = NoArgs
    /\ pc = "idle"
    /\ RunReset

InitParse ==
    /\ size_text \in TextsUpTo(MaxLen)
    /\ parse_called = FALSE
    /\ parse_result = NotParsed
    /\ IdleStream
    /\ IdleRun

CallParseSize ==
    /\ ~parse_called
    /\ parse_called' = TRUE
    /\ parse_result' = parse_size(size_text)
    /\ UNCHANGED <<size_text, streamVars, runVars>>

NextParse == CallParseSize

SpecParse == InitParse /\ [][NextParse]_vars

----------------------------------------------------------------------------
(* RandomBytesIO *)

Min(a, b) == IF a <= b THEN a ELSE b
Max(a, b) == IF a >= b THEN a ELSE b

\* a constructor that keeps chunk_size as given
RandomBytesIO_init_uncoerced(total_bytes_, chunk_size_) ==
    IF total_bytes_ < 0
    THEN [raised |-> TRUE, remaining |-> 0, chunk_size |-> 0]
    ELSE [raised |-> FALSE, remaining |-> total_bytes_, chunk_size |-> chunk_size_]

\* RandomBytesIO.__init__
RandomBytesIO_init(total_bytes_, chunk_size_) ==
    IF total_bytes_ < 0
    THEN [raised |-> TRUE, remaining |-> 0, chunk_size |-> 0]
    ELSE [raised |-> FALSE, remaining |-> total_bytes_,
          chunk_size |-> Max(1, chunk_size_)]

\* a readinto that bounds the read by the chunk and the buffer only
to_write_unbounded(remaining, chunk_size, buffer_length) ==
    Min(chunk_size, buffer_length)

\* the number of bytes one readinto call writes when bytes remain
to_write(remaining, chunk_size, buffer_length) ==
    Min(remaining, Min(chunk_size, buffer_length))

\* RandomBytesIO.readinto on a buffer of buffer_length bytes: the value
\* returned and the new _remaining
readinto(remaining, chunk_size, buffer_length) ==
    IF remaining <= 0 THEN [ret |-> 0, remaining |-> remaining]
    ELSE LET w == to_write(remaining, chunk_size, buffer_length)
         IN  [ret |-> w, remaining |-> remaining - w]

\* the reader gives up after this many calls (no read loop needs more)
MaxReads == MaxTotal + 3

InitStream ==
    /\ IdleParse
    /\ IdleRun
    /\ ctor_args \in [total_bytes : -1..MaxTotal, chunk_size : -1..MaxChunk]
    /\ stream_state = "new"
    /\ _remaining = 0
    /\ _chunk_size = 0
    /\ n_reads = 0
    /\ last_read = [len |-> 0, ret |-> 0]
    /\ delivered = 0
    /\ loop = [stopped |-> FALSE, calls |-> 0, bytes |-> 0, stop_len |-> 0]

\* RandomBytesIO(total_bytes, chunk_size)
Construct ==
    /\ stream_state = "new"
    /\ LET r == RandomBytesIO_init(ctor_args.total_bytes, ctor_args.chunk_size)
       IN  /\ stream_state' = IF r.raised THEN "ValueError" ELSE "ready"
           /\ _remaining' = r.remaining
           /\ _chunk_size' = r.chunk_size
    /\ UNCHANGED <<ctor_args, n_reads, last_read, delivered, loop, parseVars, runVars>>

\* one readinto(b) call with len(b) = n. The read-until-0 loop is the calls
\* up to and including the first that returns 0; later calls are reads
\* made after the loop has stopped.
Read(n) ==
    /\ stream_state = "ready"
    /\ n_reads < MaxReads
    /\ LET r == readinto(_remaining, _chunk_size, n)
       IN  /\ _remaining' = r.remaining
           /\ last_read' = [len |-> n, ret |-> r.ret]
           /\ delivered' = delivered + r.ret
           /\ loop' = IF loop.stopped THEN loop
                      ELSE [stopped |-> r.ret = 0,
                            calls |-> loop.calls + 1,
                            bytes |-> loop.bytes + r.ret,
                            stop_len |-> IF r.ret = 0 THEN n ELSE 0]
    /\ n_reads' = n_reads + 1
    /\ UNCHANGED <<ctor_args, stream_state, _chunk_size, parseVars, runVars>>

ReadStep == \E n \in 0..MaxBuf : Read(n)

NextStream == Construct \/ ReadStep

SpecStream == InitStream /\ [][NextStream]_vars

\* the reader keeps calling readinto
FairSpecStream == SpecStream /\ WF_vars(Construct) /\ WF_vars(ReadStep)

----------------------------------------------------------------------------
(* The command line and the two parsers of the upload subcommand *)

RequiredFlags == {"-e", "--s3key", "--s3secret", "-b"}

\* the options add_upload_subparser registers (upload.py)
add_upload_subparser == RequiredFlags \cup {"-n", "-s", "--insecure", "--location"}

\* the options build_parser registers for `upload` (__main__.py); it does not
\* call add_upload_subparser
build_parser == RequiredFlags \cup {"-n", "-s", "--insecure"}

DefaultObjectCount == 100
DefaultObjectSize == <<"4", "k">>
DefaultLocation == "us-east-1"

\* ArgumentParser.parse_args: argparse exits with status 2 on an option it
\* does not know or a required option that is missing; otherwise the
\* namespace holds one attribute per registered option
parse_args(parser, argv_) ==
    IF ~(argv_.flags \subseteq parser) \/ ~(RequiredFlags \subseteq argv_.flags)
    THEN [raised |-> TRUE, namespace |-> NoArgs]
    ELSE LET count == IF "-n" \in argv_.flags THEN argv_.object_count
                      ELSE DefaultObjectCount
             size == IF "-s" \in argv_.flags THEN argv_.object_size
                     ELSE DefaultObjectSize
             insecure == "--insecure" \in argv_.flags
         IN  [raised |-> FALSE,
              namespace |->
                IF "--location" \in parser
                THEN [command |-> "upload", endpoint |-> "E", s3key |-> "K",
                      s3secret |-> "S", bucket |-> "B", object_count |-> count,
                      object_size |-> size, insecure |-> insecure,
                      location |-> IF "--location" \in argv_.flags
                                   THEN argv_.location ELSE DefaultLocation]
                ELSE [command |-> "upload", endpoint |-> "E", s3key |-> "K",
                      s3secret |-> "S", bucket |-> "B", object_count |-> count,
                      object_size |-> size, insecure |-> insecure]]

\* the --object-size values of the runs: valid ones, and one of each kind
\* parse_size rejects
SizeArgs == {<<"4", "k">>, <<"1", "k">>, <<"1">>, <<"0">>,
             <<>>, <<"a", "b", "c">>, <<"-", "5">>, <<"k">>}

\* the -n values of the runs (argparse's int accepts a negative count)
ObjectCounts == -1..MaxCount

LocationArgs == {[given |-> FALSE, value |-> ""], [given |-> TRUE, value |-> "eu-west-1"]}

----------------------------------------------------------------------------
(* handle_upload *)

Returned(code) == [kind |-> "returned", code |-> code, exc |-> ""]
Raised(exc) == [kind |-> "raised", code |-> 0, exc |-> exc]

\* how client.upload_fileobj can end: it returns, or raises an error of one
\* of the two botocore classes, or raises an error of any other class
\* (s3transfer and boto3 define some that derive from Exception directly)
UploadOutcomes == {"ok", "BotoCoreError", "ClientError", "OtherError"}

\* except (BotoCoreError, ClientError)
Caught(exc) == exc \in {"BotoCoreError", "ClientError"}

\* f"s3load/{uuid.uuid4().hex}": the n-th identifier drawn is n
NewKey(n) == <<"s3load/", n>>

\* an except clause that logs and prints but has lost its `return 1`
try_outcome_no_return(outcome) ==
    IF outcome = "ok" \/ Caught(outcome) THEN [kind |-> "fallthrough", exc |-> ""]
    ELSE [kind |-> "raise", exc |-> outcome]

\* a try statement with a further bare handler that returns 1 for every
\* other exception without reporting it
try_outcome_silent_return(outcome) ==
    IF outcome = "ok" THEN [kind |-> "fallthrough", exc |-> ""]
    ELSE [kind |-> "return", exc |-> ""]

\* what the try statement is about to do when upload_fileobj ended with
\* outcome: go on after it, return 1 from the except clause, or let the
\* exception propagate
try_outcome(outcome) ==
    IF outcome = "ok" THEN [kind |-> "fallthrough", exc |-> ""]
    ELSE IF Caught(outcome) THEN [kind |-> "return", exc |-> ""]
    ELSE [kind |-> "raise", exc |-> outcome]

\* a finally clause that calls fileobj.close() without guarding it: the
\* exception close raises replaces whatever the try statement was doing
finally_outcome_unguarded(pend, close_raised) ==
    IF close_raised THEN [kind |-> "raise", exc |-> "CloseError"] ELSE pend

\* the try statement's completion once the finally clause has run; an
\* exception raised by fileobj.close() is swallowed (except Exception: pass)
finally_outcome(pend, close_raised) == pend

\* throughput in MB/s as an exact fraction num/den
\* a throughput in decimal megabytes
Throughput_decimal(total, overall_elapsed) ==
    IF overall_elapsed > 0
    THEN [num |-> total, den |-> BigMul(ToBig(1000 * 1000), ToBig(overall_elapsed))]
    ELSE [num |-> <<>>, den |-> <<1>>]

\* a throughput that is not zero when no time has elapsed
Throughput_instant_nonzero(total, overall_elapsed) ==
    IF overall_elapsed > 0
    THEN [num |-> total, den |-> BigMul(ToBig(KiB * KiB), ToBig(overall_elapsed))]
    ELSE [num |-> <<1>>, den |-> <<1>>]

Throughput(total, overall_elapsed) ==
    IF overall_elapsed > 0
    THEN [num |-> total, den |-> BigMul(ToBig(KiB * KiB), ToBig(overall_elapsed))]
    ELSE [num |-> <<>>, den |-> <<1>>]

\* the value of a limb sequence that fits the model checker's integers
RECURSIVE FromBig(_)
FromBig(a) == IF a = <<>> THEN 0 ELSE Head(a) + KiB * FromBig(Tail(a))

RECURSIVE Pow10(_)
Pow10(p) == IF p = 0 THEN 1 ELSE 10 * Pow10(p - 1)

\* f"{x:.2f}" and "%.4f": the fraction f rounded to `places` decimals, ties
\* to even, as the count of units of 10^-places (500 stands for 5.00). The
\* totals and durations of the runs modelled here keep the scaled numerator
\* below 2^31. The binary rounding of the float itself is not modelled.
format_fixed(f, places) ==
    LET a == FromBig(f.num) * Pow10(places)
        d == FromBig(f.den)
        q == a \div d
        r == a % d
    IN  IF 2 * r > d \/ (2 * r = d /\ q % 2 = 1) THEN q + 1 ELSE q

\* per-object records written last result first
ObjectRecords_reversed(results) ==
    [i \in 1..Len(results) |->
        [level |-> "INFO", event |-> "upload_object",
         key |-> results[Len(results) + 1 - i].key,
         duration_s |-> results[Len(results) + 1 - i].elapsed]]

\* the per-object log records, in list order
ObjectRecords(results) ==
    [i \in 1..Len(results) |->
        [level |-> "INFO", event |-> "upload_object",
         key |-> results[i].key, duration_s |-> results[i].elapsed]]

\* lines 139-145: get the logger, parse --object-size
ParseSizeStep ==
    /\ pc = "handle_upload"
    /\ LET r == parse_size(args.object_size)
       IN  IF r.raised
           THEN /\ stdout' = Append(stdout, [kind |-> "invalid_size", msg |-> r.msg])
                /\ result' = Returned(2)
                /\ pc' = "returned"
                /\ UNCHANGED object_size_bytes
           ELSE /\ object_size_bytes' = r.value
                /\ pc' = "client"
                /\ UNCHANGED <<stdout, result>>
    /\ UNCHANGED <<entry, argv, args, exit_status, log, client, total_bytes,
                   per_object_results, clock, overall_start, start, key,
                   n_uuid, uploads, streams, pending>>
    /\ UNCHANGED <<parseVars, streamVars>>

\* lines 147-158: construct the client, reset the totals, start the clock.
\* Reading args.location raises AttributeError when the namespace has none.
CreateClient ==
    /\ pc = "client"
    /\ IF "location" \in DOMAIN args
       THEN /\ client' = [constructed |-> TRUE, region_name |-> args.location]
            /\ total_bytes' = <<>>
            /\ per_object_results' = <<>>
            /\ overall_start' = clock
            /\ pc' = "loop"
            /\ UNCHANGED result
       ELSE /\ result' = Raised("AttributeError")
            /\ pc' = "raised"
            /\ UNCHANGED <<client, total_bytes, per_object_results, overall_start>>
    /\ UNCHANGED <<entry, argv, args, exit_status, stdout, log,
                   object_size_bytes, clock, start, key, n_uuid, uploads,
                   streams, pending>>
    /\ UNCHANGED <<parseVars, streamVars>>

\* lines 160-163: the next iteration of range(object_count): a new key, a
\* new content stream, the iteration's start time
BeginIteration ==
    /\ pc = "loop"
    /\ Len(streams) < args.object_count
    /\ key' = NewKey(n_uuid + 1)
    /\ n_uuid' = n_uuid + 1
    /\ streams' = Append(streams, [state |-> "open", close_raised |-> FALSE,
                                   size |-> object_size_bytes])
    /\ start' = clock
    /\ pc' = "upload"
    /\ UNCHANGED <<entry, argv, args, result, exit_status, stdout, log, client,
                   object_size_bytes, total_bytes, per_object_results, clock,
                   overall_start, uploads, pending>>
    /\ UNCHANGED <<parseVars, streamVars>>

\* lines 164-175: the upload call, which blocks for d ticks, and the except
\* clause
UploadCall(outcome, d) ==
    /\ pc = "upload"
    /\ uploads' = Append(uploads, [key |-> key, bucket |-> args.bucket,
                                   stream |-> Len(streams), outcome |-> outcome])
    /\ clock' = clock + d
    /\ IF outcome # "ok" /\ Caught(outcome)
       THEN /\ log' = Append(log, [level |-> "ERROR", event |-> "upload_failed",
                                   key |-> key, error |-> outcome])
            /\ stdout' = Append(stdout, [kind |-> "upload_failed", key |-> key,
                                         error |-> outcome])
       ELSE UNCHANGED <<log, stdout>>
    /\ pending' = try_outcome(outcome)
    /\ pc' = "finally"
    /\ UNCHANGED <<entry, argv, args, result, exit_status, client,
                   object_size_bytes, total_bytes, per_object_results,
                   overall_start, start, key, n_uuid, streams>>
    /\ UNCHANGED <<parseVars, streamVars>>

UploadStep == \E outcome \in UploadOutcomes, d \in 0..MaxTick : UploadCall(outcome, d)

\* lines 176-183: the finally clause closes the stream, then the try
\* statement completes: the iteration's bookkeeping, return 1, or the
\* exception goes on
CloseStream(close_raised) ==
    /\ pc = "finally"
    /\ streams' = [streams EXCEPT ![Len(streams)].state = "closed",
                                  ![Len(streams)].close_raised = close_raised]
    /\ LET after == finally_outcome(pending, close_raised)
       IN  /\ IF after.kind = "fallthrough"
              THEN /\ total_bytes' = BigAdd(total_bytes, object_size_bytes)
                   /\ per_object_results' =
                        Append(per_object_results,
                               [key |-> key, elapsed |-> clock - start])
                   /\ pc' = "loop"
                   /\ UNCHANGED result
              ELSE IF after.kind = "return"
              THEN /\ result' = Returned(1)
                   /\ pc' = "returned"
                   /\ UNCHANGED <<total_bytes, per_object_results>>
              ELSE /\ result' = Raised(after.exc)
                   /\ pc' = "raised"
                   /\ UNCHANGED <<total_bytes, per_object_results>>
    /\ pending' = [kind |-> "", exc |-> ""]
    /\ UNCHANGED <<entry, argv, args, exit_status, stdout, log, client,
                   object_size_bytes, clock, overall_start, start, key, n_uuid,
                   uploads>>
    /\ UNCHANGED <<parseVars, streamVars>>

CloseStep == \E close_raised \in BOOLEAN : CloseStream(close_raised)

\* lines 185-207: after the loop: the elapsed time (d ticks after the last
\* reading), the throughput, the log records, the summary line, return 0
Report(d) ==
    /\ pc = "loop"
    /\ ~(Len(streams) < args.object_count)
    /\ clock' = clock + d
    /\ LET overall_elapsed == clock' - overall_start
           throughput == Throughput(total_bytes, overall_elapsed)
       IN  /\ log' = log \o
                  <<[level |-> "INFO", event |-> "upload_summary",
                     region |-> args.location, objects |-> args.object_count,
                     size |-> args.object_size, total_bytes |-> total_bytes,
                     duration_s |-> overall_elapsed, throughput |-> throughput]>>
                  \o ObjectRecords(per_object_results)
           /\ stdout' = Append(stdout,
                  [kind |-> "summary", objects |-> args.object_count,
                   size |-> args.object_size, bucket |-> args.bucket,
                   duration_s |-> overall_elapsed, throughput |-> throughput,
                   throughput_2f |-> format_fixed(throughput, 2)])
    /\ result' = Returned(0)
    /\ pc' = "returned"
    /\ UNCHANGED <<entry, argv, args, exit_status, client, object_size_bytes,
                   total_bytes, per_object_results, overall_start, start, key,
                   n_uuid, uploads, streams, pending>>
    /\ UNCHANGED <<parseVars, streamVars>>

ReportStep == \E d \in 0..MaxTick : Report(d)

----------------------------------------------------------------------------
(* Spec: handle_upload called with a namespace parsed by the subcommand's  *)
(* own parser, add_upload_subparser                                        *)

ArgvDirect ==
    {[flags |-> RequiredFlags \cup {"-n", "-s"}
                  \cup (IF l.given THEN {"--location"} ELSE {}),
      object_count |-> n, object_size |-> sz, location |-> l.value] :
        n \in ObjectCounts, sz \in SizeArgs, l \in LocationArgs}

Init ==
    /\ IdleParse
    /\ IdleStream
    /\ entry = "handle_upload"
    /\ argv \in ArgvDirect
    /\ args = parse_args(add_upload_subparser, argv).namespace
    /\ pc = "handle_upload"
    /\ RunReset

Next ==
    \/ ParseSizeStep
    \/ CreateClient
    \/ BeginIteration
    \/ UploadStep
    \/ CloseStep
    \/ ReportStep

Spec == Init /\ [][Next]_vars

----------------------------------------------------------------------------
(* SpecMain: the program started through main. CreateClient raises for     *)
(* every namespace build_parser produces, so the upload loop is never      *)
(* entered and its steps are not part of this next-state relation.         *)

ArgvMain ==
    {[flags |-> (RequiredFlags \ missing) \cup opt
                  \cup (IF l.given THEN {"--location"} ELSE {}),
      object_count |-> IF "-n" \in opt THEN n ELSE 0,
      object_size |-> IF "-s" \in opt THEN sz ELSE <<>>,
      location |-> l.value] :
        missing \in {{}, {"-b"}}, opt \in SUBSET {"-n", "-s", "--insecure"},
        n \in ObjectCounts, sz \in SizeArgs, l \in LocationArgs}

InitMain ==
    /\ IdleParse
    /\ IdleStream
    /\ entry = "main"
    /\ argv \in ArgvMain
    /\ args = NoArgs
    /\ pc = "main"
    /\ RunReset

\* main, lines 76-81: parse the command line and call handle_upload
MainParseArgs ==
    /\ pc = "main"
    /\ LET r == parse_args(build_parser, argv)
       IN  IF r.raised
           THEN /\ exit_status' = [kind |-> "SystemExit", code |-> 2, exc |-> ""]
                /\ pc' = "exit"
                /\ UNCHANGED args
           ELSE /\ args' = r.namespace
                /\ pc' = "handle_upload"
                /\ UNCHANGED exit_status
    /\ UNCHANGED <<entry, argv, result, stdout, log, client, object_size_bytes,
                   total_bytes, per_object_results, clock, overall_start, start,
                   key, n_uuid, uploads, streams, pending>>
    /\ UNCHANGED <<parseVars, streamVars>>

\* main, lines 81-82: raise SystemExit(exit_code); an exception raised by
\* handle_upload is not caught and ends the process with a traceback
MainExit ==
    /\ entry = "main"
    /\ pc \in {"returned", "raised"}
    /\ exit_status' = IF pc = "returned"
                      THEN [kind |-> "SystemExit", code |-> result.code, exc |-> ""]
                      ELSE [kind |-> "uncaught", code |-> 1, exc |-> result.exc]
    /\ pc' = "exit"
    /\ UNCHANGED <<entry, argv, args, result, stdout, log, client,
                   object_size_bytes, total_bytes, per_object_results, clock,
                   overall_start, start, key, n_uuid, uploads, streams, pending>>
    /\ UNCHANGED <<parseVars, streamVars>>

NextMain ==
    \/ MainParseArgs
    \/ ParseSizeStep
    \/ CreateClient
    \/ MainExit

SpecMain == InitMain /\ [][NextMain]_vars

----------------------------------------------------------------------------
(* What the claims say about size expressions, stated without parse_size's *)
(* own steps                                                               *)

\* t without the white space around it
ClaimTrim(t) ==
    LET idx == {i \in 1..Len(t) : t[i] \notin Whitespace}
    IN  IF idx = {} THEN <<>>
        ELSE SubSeq(t, CHOOSE i \in idx : \A j \in idx : i <= j,
                       CHOOSE i \in idx : \A j \in idx : i >= j)

ClaimSuffixes == {"k", "K", "m", "M", "g", "G"}

\* the power of 1024 a suffix letter stands for
ClaimExponent(c) ==
    CASE c \in {"k", "K"} -> 1 [] c \in {"m", "M"} -> 2 [] c \in {"g", "G"} -> 3

ClaimAllDigits(d) == Len(d) >= 1 /\ \A i \in 1..Len(d) : d[i] \in Digits

RECURSIVE ClaimDigitsValue(_)
ClaimDigitsValue(d) ==
    IF d = <<>> THEN 0
    ELSE 10 * ClaimDigitsValue(SubSeq(d, 1, Len(d) - 1)) + DigitVal(d[Len(d)])

\* v * 1024^e, as limbs
ClaimShift(v, e) == IF v = 0 THEN <<>> ELSE [i \in 1..e |-> 0] \o ToBig(v)

\* the integer written in decimal by the digits ds, as limbs
RECURSIVE ClaimFromDecimal(_)
ClaimFromDecimal(ds) ==
    IF ds = <<>> THEN <<>>
    ELSE BigAdd(BigMulLimb(ClaimFromDecimal(SubSeq(ds, 1, Len(ds) - 1)), 10, 0),
                ToBig(ds[Len(ds)]))

\* digits, optionally followed by one of k, m, g, once trimmed
ClaimValidSize(t) ==
    LET c == ClaimTrim(t)
    IN  \/ ClaimAllDigits(c)
        \/ /\ Len(c) >= 2
           /\ c[Len(c)] \in ClaimSuffixes
           /\ ClaimAllDigits(SubSeq(c, 1, Len(c) - 1))

ClaimExpectedBytes(t) ==
    LET c == ClaimTrim(t)
    IN  IF c[Len(c)] \in ClaimSuffixes
        THEN ClaimShift(ClaimDigitsValue(SubSeq(c, 1, Len(c) - 1)),
                        ClaimExponent(c[Len(c)]))
        ELSE ClaimShift(ClaimDigitsValue(c), 0)

ParsesTo(t, ds) ==
    LET r == parse_size(t) IN ~r.raised /\ r.value = ClaimFromDecimal(ds)

\* C9: parse_size on a valid expression (digits, optionally one of k, m, g
\* in either case, white space around them) returns int(digits) times
\* 1024^0, 1024^1, 1024^2 or 1024^3; the claim's seven examples give the
\* byte counts it lists.
C9_ValidSizes ==
    /\ (parse_called /\ ClaimValidSize(size_text)) =>
          (~parse_result.raised /\ parse_result.value = ClaimExpectedBytes(size_text))
    /\ ParsesTo(<<"0">>, <<0>>)
    /\ ParsesTo(<<"1">>, <<1>>)
    /\ ParsesTo(<<"4", "k">>, <<4, 0, 9, 6>>)
    /\ ParsesTo(<<"1", "0", "0", "K">>, <<1, 0, 2, 4, 0, 0>>)
    /\ ParsesTo(<<"8", "m">>, <<8, 3, 8, 8, 6, 0, 8>>)
    /\ ParsesTo(<<"2", "g">>, <<2, 1, 4, 7, 4, 8, 3, 6, 4, 8>>)
    /\ ParsesTo(<<"0", "g">>, <<0>>)

\* a trimmed, upper-case-suffixed expression has been parsed to 5 * 1024
C9_Witness ==
    /\ parse_called
    /\ size_text = <<" ", "5", "K">>
    /\ parse_result.value = <<0, 5>>

\* the text left after removing one trailing k, m or g from the trimmed text
ClaimNumericPortion(t) ==
    LET c == ClaimTrim(t)
    IN  IF Len(c) >= 1 /\ c[Len(c)] \in ClaimSuffixes
        THEN SubSeq(c, 1, Len(c) - 1) ELSE c

\* s is an integer as Python's int() reads one: white space around it, one
\* optional sign, digits, single underscores between digits
ClaimIsInteger(s) ==
    \E a \in 1..Len(s), b \in 1..Len(s) :
        /\ a <= b
        /\ \A i \in 1..(a - 1) : s[i] \in Whitespace
        /\ \A i \in (b + 1)..Len(s) : s[i] \in Whitespace
        /\ LET f == IF s[a] \in {"+", "-"} THEN a + 1 ELSE a
           IN  /\ f <= b
               /\ s[f] \in Digits
               /\ s[b] \in Digits
               /\ \A i \in f..b :
                     \/ s[i] \in Digits
                     \/ (s[i] = "_" /\ s[i - 1] \in Digits /\ s[i + 1] \in Digits)

\* s is an integer below zero
ClaimIsNegative(s) ==
    /\ ClaimIsInteger(s)
    /\ LET c == ClaimTrim(s)
       IN  c[1] = "-" /\ \E i \in 1..Len(c) : c[i] \in Digits \ {"0"}

ClaimMalformed(t) ==
    \/ ClaimTrim(t) = <<>>
    \/ ~ClaimIsInteger(ClaimNumericPortion(t))
    \/ ClaimIsNegative(ClaimNumericPortion(t))

InvalidSizeMessages ==
    {"Object size must be a positive value", "Invalid size value: {size_text}",
     "Size must be non-negative"}

Rejects(t) ==
    LET r == parse_size(t)
    IN  r.raised /\ r.value = <<>> /\ r.msg.fmt \in InvalidSizeMessages

\* C10: parse_size on a malformed expression (empty once trimmed, a numeric
\* portion that is not an integer, or a negative one) raises the
\* invalid-size error and returns no byte count; so do the claim's examples.
C10_MalformedSizes ==
    /\ (parse_called /\ ClaimMalformed(size_text)) =>
          /\ parse_result.raised
          /\ parse_result.value = <<>>
          /\ parse_result.msg.fmt \in InvalidSizeMessages
    /\ Rejects(<<>>)
    /\ Rejects(<<"a", "b", "c">>)
    /\ Rejects(<<"-", "5">>)
    /\ Rejects(<<"5", "x">>)
    /\ Rejects(<<"-", "1", "k">>)
    /\ Rejects(<<"k">>)

\* a negative number with a suffix has been rejected
C10_Witness ==
    /\ parse_called
    /\ size_text = <<"-", "1", "k">>
    /\ parse_result.raised
    /\ parse_result.msg = MsgNegative

----------------------------------------------------------------------------
(* What the claims say about a run of handle_upload *)

Stopped == pc \in {"returned", "raised"}

\* the index of the first upload call that failed, or 0
FirstFailed ==
    IF \E i \in 1..Len(uploads) : uploads[i].outcome # "ok"
    THEN CHOOSE i \in 1..Len(uploads) :
            /\ uploads[i].outcome # "ok"
            /\ \A j \in 1..(i - 1) : uploads[j].outcome = "ok"
    ELSE 0

Lines(kind) == {i \in 1..Len(stdout) : stdout[i].kind = kind}
Records(event) == {i \in 1..Len(log) : log[i].event = event}
ErrorRecords == {i \in 1..Len(log) : log[i].level = "ERROR"}

ValidSizeArg == ~parse_size(args.object_size).raised

\* C1: fail-fast. Once upload call i has failed after i-1 successes, no
\* further call is made and no key is used twice, and the run returns 1
\* having printed one line, the error line naming call i's key.
C1_FailFast ==
    FirstFailed # 0 =>
        /\ Len(uploads) = FirstFailed
        /\ \A i, j \in 1..Len(uploads) : i # j => uploads[i].key # uploads[j].key
        /\ Stopped =>
              /\ result = Returned(1)
              /\ Len(stdout) = 1
              /\ stdout[1].kind = "upload_failed"
              /\ stdout[1].key = uploads[FirstFailed].key

\* C2: every error upload_fileobj raises, of whatever class, is handled as
\* an upload failure: it never propagates out of handle_upload, and the run
\* returns 1 with the failure printed and logged with the key.
C2_EveryUploadErrorHandled ==
    FirstFailed # 0 =>
        /\ result.kind # "raised"
        /\ Stopped =>
              /\ result = Returned(1)
              /\ \E i \in Lines("upload_failed") : stdout[i].key = uploads[FirstFailed].key
              /\ \E i \in Records("upload_failed") : log[i].key = uploads[FirstFailed].key

\* how the run must end given its last upload call, whatever close did
OutcomeFromUploads ==
    IF uploads = <<>> THEN result = Returned(0)
    ELSE LET last == uploads[Len(uploads)].outcome
         IN  IF last = "ok" THEN result = Returned(0)
             ELSE IF Caught(last) THEN result = Returned(1)
             ELSE result = Raised(last)

\* C3: at most one content stream is open and each upload call reads the
\* one stream of its iteration; a stream is closed before the next is
\* created; when handle_upload stops (return 0, return 1, or an exception
\* escaping the upload call) every stream is closed; and an error raised by
\* close changes nothing of how the run ends.
C3_StreamRelease ==
    /\ Cardinality({i \in 1..Len(streams) : streams[i].state = "open"}) <= 1
    /\ Len(uploads) <= Len(streams) /\ Len(streams) <= Len(uploads) + 1
    /\ \A i \in 1..Len(uploads) : uploads[i].stream = i
    /\ \A i \in 1..(Len(streams) - 1) : streams[i].state = "closed"
    /\ (pc = "upload") => streams[Len(streams)].state = "open"
    /\ (Stopped \/ pc = "loop") =>
          \A i \in 1..Len(streams) : streams[i].state = "closed"
    /\ (Stopped /\ ValidSizeArg) => OutcomeFromUploads

\* an exception escaped the second upload call, the first stream's close
\* had raised, and both streams are closed
C3_Witness ==
    /\ pc = "raised"
    /\ result = Raised("OtherError")
    /\ Len(streams) = 2
    /\ streams[1].close_raised
    /\ \A i \in 1..2 : streams[i].state = "closed"

\* C4 as stated: when parse_size rejects --object-size, handle_upload
\* returns 2 with no upload call, no stream and no client, and the line it
\* prints names the rejected value (an empty value has nothing to name).
C4_InvalidSizeNamesValue ==
    (pc # "handle_upload" /\ ~ValidSizeArg) =>
        /\ result = Returned(2)
        /\ uploads = <<>> /\ streams = <<>> /\ ~client.constructed
        /\ Len(stdout) = 1
        /\ stdout[1].kind = "invalid_size"
        /\ args.object_size # <<>> => stdout[1].msg.args = <<args.object_size>>

\* C4 amended: when parse_size rejects --object-size, handle_upload returns
\* 2 with no upload call, no stream and no client, and prints one line; the
\* line names the rejected value when its numeric portion is not an integer
\* (as for "abc"), and is a fixed message without the value when the value
\* is empty or negative.
C4_InvalidSize ==
    (pc # "handle_upload" /\ ~ValidSizeArg) =>
        /\ result = Returned(2)
        /\ uploads = <<>> /\ streams = <<>> /\ ~client.constructed
        /\ Len(stdout) = 1
        /\ stdout[1].kind = "invalid_size"
        /\ IF ClaimTrim(args.object_size) = <<>>
              \/ ClaimIsNegative(ClaimNumericPortion(args.object_size))
           THEN stdout[1].msg.args = <<>>
           ELSE stdout[1].msg.args = <<args.object_size>>

\* the run of object_size = "abc" has returned 2 and named the value
C4_Witness ==
    /\ args.object_size = <<"a", "b", "c">>
    /\ result = Returned(2)
    /\ stdout = <<[kind |-> "invalid_size", msg |-> MsgInvalid(<<"a", "b", "c">>)]>>
    /\ uploads = <<>>

AllUploadsSucceeded ==
    /\ Len(uploads) = args.object_count
    /\ \A i \in 1..Len(uploads) : uploads[i].outcome = "ok"

\* C5: for object_count >= 0 and a valid size, handle_upload returns 0 if
\* and only if exactly object_count upload calls were made and all
\* succeeded; the summary record and the summary line are emitted once in
\* that case and never otherwise; no run reports both a summary and a
\* failure.
C5_ExitZeroIffAllSucceeded ==
    (args.object_count >= 0 /\ ValidSizeArg) =>
        /\ Stopped => (result = Returned(0) <=> AllUploadsSucceeded)
        /\ IF result = Returned(0)
           THEN Cardinality(Records("upload_summary")) = 1
                /\ Cardinality(Lines("summary")) = 1
           ELSE Records("upload_summary") = {} /\ Lines("summary") = {}
        /\ result = Returned(0) => FirstFailed = 0
        /\ ~(Lines("summary") # {} /\ Lines("upload_failed") # {})

\* a run of three objects has returned 0 after three successful uploads
C5_Witness ==
    /\ args.object_count = 3
    /\ result = Returned(0)
    /\ Len(uploads) = 3
    /\ Cardinality(Lines("summary")) = 1

\* C6: through main, the upload subcommand accepts --location (default
\* us-east-1), the namespace handed to handle_upload carries a location
\* attribute, and with a valid size the run reaches the upload loop with
\* that region given to the client instead of failing on the attribute.
C6_MainPassesLocation ==
    /\ (parse_args(add_upload_subparser, argv).raised = FALSE /\ pc # "main")
          => exit_status # [kind |-> "SystemExit", code |-> 2, exc |-> ""]
                \/ result = Returned(2)
    /\ (pc \in {"handle_upload", "client"}) => "location" \in DOMAIN args
    /\ result # Raised("AttributeError")
    /\ (pc = "exit" /\ exit_status.kind = "uncaught") => exit_status.exc # "AttributeError"

\* C7: every run that returns a non-zero code (2 or 1) has printed an error
\* line and given an error record to the logger.
C7_FailuresPrintedAndLogged ==
    (result.kind = "returned" /\ result.code # 0) =>
        /\ Lines("invalid_size") \cup Lines("upload_failed") # {}
        /\ ErrorRecords # {}

----------------------------------------------------------------------------
(* What the claims say about RandomBytesIO *)

Constructed == stream_state = "ready"

\* C8 as stated: for any total_bytes >= 0, any chunk_size >= 1 and any
\* buffer lengths, the calls up to the first that returns 0 deliver exactly
\* total_bytes.
C8_LoopDeliversTotal ==
    (Constructed /\ ctor_args.chunk_size >= 1 /\ loop.stopped)
        => loop.bytes = ctor_args.total_bytes

\* C8 amended: for any total_bytes >= 0, any chunk_size and any sequence of
\* buffer lengths each at least 1, calling readinto until it returns 0
\* delivers exactly total_bytes bytes; the loop ends, after at most
\* total_bytes + 1 calls; and a read of an exhausted stream returns 0 and
\* leaves the stream as it is.
C8_ReadToExhaustion ==
    /\ []((Constructed /\ loop.stopped /\ loop.stop_len >= 1)
              => loop.bytes = ctor_args.total_bytes)
    /\ [](Constructed => loop.calls <= ctor_args.total_bytes + 1)
    /\ [][(Constructed /\ _remaining = 0 /\ n_reads' # n_reads)
              => (last_read'.ret = 0 /\ _remaining' = 0
                  /\ _chunk_size' = _chunk_size /\ stream_state' = stream_state)]_vars
    /\ (Constructed ~> loop.stopped)

\* four bytes were delivered in three or more calls, the loop was stopped
\* by a read into a non-empty buffer, and the stream was read again after
C8_Witness ==
    /\ Constructed
    /\ ctor_args.total_bytes = 4
    /\ loop.stopped /\ loop.stop_len >= 1
    /\ loop.bytes = 4
    /\ loop.calls >= 4
    /\ n_reads > loop.calls
    /\ last_read.ret = 0

----------------------------------------------------------------------------
(* What the claims say about the summary of a run *)

\* C11: when all N >= 0 uploads of size S succeed, total_bytes is N * S, the
\* result list has N (key, duration) entries in upload order, each with the
\* s3load/ key given to its upload call, and the log holds one summary
\* record followed by the N per-object records in that order.
C11_SuccessfulRunAccounting ==
    (args.object_count >= 0 /\ ValidSizeArg /\ result = Returned(0)) =>
        LET N == args.object_count
            NS == BigMul(ToBig(N), ClaimExpectedBytes(args.object_size))
        IN  /\ total_bytes = NS
            /\ Len(uploads) = N
            /\ Len(per_object_results) = N
            /\ \A i \in 1..N :
                  /\ per_object_results[i].key = uploads[i].key
                  /\ per_object_results[i].key[1] = "s3load/"
                  /\ per_object_results[i].elapsed >= 0
            /\ Len(log) = N + 1
            /\ log[1].event = "upload_summary"
            /\ log[1].total_bytes = NS
            /\ \A i \in 1..N :
                  /\ log[i + 1].event = "upload_object"
                  /\ log[i + 1].key = uploads[i].key
                  /\ log[i + 1].duration_s = per_object_results[i].elapsed

\* three objects of 1k were uploaded: 3072 bytes, four log records
C11_Witness ==
    /\ args.object_count = 3
    /\ args.object_size = <<"1", "k">>
    /\ result = Returned(0)
    /\ total_bytes = ClaimFromDecimal(<<3, 0, 7, 2>>)
    /\ Len(log) = 4
    /\ Cardinality({per_object_results[i].key : i \in 1..3}) = 3

\* a fraction num/den that is defined and equal to zero
IsZeroFraction(f) == f.num = <<>> /\ f.den # <<>>

\* C12: with object_count = 0 and a valid size, no upload call is made and
\* no stream is created, and the run returns 0 with total_bytes = 0, a
\* throughput of 0 computed without a division by zero, and the summary
\* with no per-object record.
C12_ZeroObjects ==
    (args.object_count = 0 /\ ValidSizeArg) =>
        /\ uploads = <<>>
        /\ streams = <<>>
        /\ result.kind # "raised"
        /\ Stopped =>
              /\ result = Returned(0)
              /\ total_bytes = <<>>
              /\ Len(log) = 1
              /\ log[1].event = "upload_summary"
              /\ log[1].total_bytes = <<>>
              /\ log[1].objects = 0
              /\ IsZeroFraction(log[1].throughput)
              /\ Len(stdout) = 1
              /\ stdout[1].kind = "summary"
              /\ IsZeroFraction(stdout[1].throughput)

\* a run of no objects has returned 0 with an elapsed time of 0
C12_Witness ==
    /\ args.object_count = 0
    /\ result = Returned(0)
    /\ Len(log) = 1
    /\ log[1].duration_s = 0
    /\ IsZeroFraction(log[1].throughput)

----------------------------------------------------------------------------
(* What the claims say about one read of RandomBytesIO *)

ClaimMin3(a, b, c) == CHOOSE x \in {a, b, c} : \A y \in {a, b, c} : x <= y

\* C13: the constructor rejects a negative total_bytes and raises a
\* chunk_size below 1 to 1; a readinto on a buffer of length n, while bytes
\* remain, returns min(n, chunk_size, remaining) and takes exactly that from
\* remaining; so 0 <= remaining <= total_bytes, the bytes delivered never
\* exceed total_bytes, and no read delivers more than chunk_size bytes.
C13_ReadStepAndInvariant ==
    /\ [](stream_state # "new" =>
             (stream_state = "ValueError" <=> ctor_args.total_bytes < 0))
    /\ [](Constructed =>
             _chunk_size = IF ctor_args.chunk_size < 1 THEN 1 ELSE ctor_args.chunk_size)
    /\ [](Constructed =>
             /\ 0 <= _remaining /\ _remaining <= ctor_args.total_bytes
             /\ 0 <= delivered /\ delivered <= ctor_args.total_bytes
             /\ delivered + _remaining = ctor_args.total_bytes
             /\ 0 <= last_read.ret /\ last_read.ret <= _chunk_size)
    /\ [][(Constructed /\ n_reads' # n_reads /\ _remaining > 0) =>
             LET m == ClaimMin3(last_read'.len, _chunk_size, _remaining)
             IN  /\ last_read'.ret = m
                 /\ _remaining' = _remaining - m
                 /\ delivered' = delivered + m]_vars

\* a stream built with chunk_size -1 has delivered its four bytes, one a read
C13_Witness ==
    /\ Constructed
    /\ ctor_args = [total_bytes |-> 4, chunk_size |-> -1]
    /\ _chunk_size = 1
    /\ delivered = 4
    /\ _remaining = 0
    /\ n_reads >= 4

\* C14: a run that returns 1 leaves exactly one record in the log, the
\* upload_failed record, and exactly one line on standard output, the error
\* line of the failing key, however many uploads succeeded before: no
\* summary, no per-object record, no throughput line.
C14_PartialResultsDiscarded ==
    result = Returned(1) =>
        /\ Len(uploads) >= 1
        /\ Len(log) = 1
        /\ log[1].event = "upload_failed"
        /\ log[1].key = uploads[Len(uploads)].key
        /\ Records("upload_summary") = {}
        /\ Records("upload_object") = {}
        /\ Len(stdout) = 1
        /\ stdout[1].kind = "upload_failed"
        /\ stdout[1].key = uploads[Len(uploads)].key
        /\ Lines("summary") = {}

\* the third upload failed after two had succeeded and been timed
C14_Witness ==
    /\ result = Returned(1)
    /\ Len(uploads) = 3
    /\ Len(per_object_results) = 2
    /\ Len(log) = 1

\* 1,048,576
ClaimMiB == ClaimFromDecimal(<<1, 0, 4, 8, 5, 7, 6>>)

\* the fraction f is total / 1,048,576 / elapsed, for elapsed > 0
ClaimIsThroughput(f, total, elapsed) ==
    /\ f.den # <<>>
    /\ BigMul(f.num, BigMul(ClaimMiB, ToBig(elapsed))) = BigMul(total, f.den)

\* C15: the throughput reported is total_bytes / 1,048,576 /
\* overall_elapsed when overall_elapsed > 0 and 0 when it is 0, never a
\* division by zero; 10485760 bytes in 2 s give 5.00 MB/s; total_bytes = 0
\* gives 0 for any elapsed time.
C15_Throughput ==
    /\ result = Returned(0) =>
          LET rec == log[1]
          IN  /\ rec.throughput.den # <<>>
              /\ IF rec.duration_s > 0
                 THEN ClaimIsThroughput(rec.throughput, rec.total_bytes, rec.duration_s)
                 ELSE IsZeroFraction(rec.throughput)
              /\ rec.total_bytes = <<>> => IsZeroFraction(rec.throughput)
              /\ stdout[Len(stdout)].throughput = rec.throughput
              /\ stdout[Len(stdout)].duration_s = rec.duration_s
    /\ LET t == Throughput(ClaimFromDecimal(<<1, 0, 4, 8, 5, 7, 6, 0>>), 2)
       IN  /\ t.num = BigMul(ToBig(5), t.den)
           /\ format_fixed(t, 2) = 500
    /\ \A e \in 0..(MaxTick * (MaxCount + 1)) : IsZeroFraction(Throughput(<<>>, e))

\* three objects of 4k in one tick: 12288 / 1048576 / 1, printed as 0.01
C15_Witness ==
    /\ result = Returned(0)
    /\ args.object_count = 3
    /\ args.object_size = <<"4", "k">>
    /\ log[1].duration_s = 1
    /\ log[1].total_bytes = ClaimFromDecimal(<<1, 2, 2, 8, 8>>)
    /\ stdout[1].throughput_2f = 1

\* C16: parse_size returns a byte count only for texts that, once trimmed,
\* are one or more decimal digits optionally followed by a single k, m or g
\* in either case; every other text, "+5", "-0", "1_0" and "5 k" among
\* them, raises the invalid-size error.
C16_OnlySizeSpecAccepted ==
    /\ (parse_called /\ ~ClaimValidSize(size_text)) =>
          /\ parse_result.raised
          /\ parse_result.msg.fmt \in InvalidSizeMessages
    /\ Rejects(<<"+", "5">>)
    /\ Rejects(<<"-", "0">>)
    /\ Rejects(<<"1", "_", "0">>)
    /\ Rejects(<<"5", " ", "k">>)

\* C17: in a run that returns 0, the object count of the summary record and
\* of the summary line is the number of upload calls made and the number of
\* per-object records logged, whatever integer object_count is.
C17_ReportedCountMatchesWork ==
    result = Returned(0) =>
        /\ \A i \in Records("upload_summary") : log[i].objects = Len(uploads)
        /\ \A i \in Lines("summary") : stdout[i].objects = Len(uploads)
        /\ Cardinality(Records("upload_object")) = Len(uploads)

====
